---- MODULE Spec2Model ----
(***************************************************************************)
(* Model of mcrpy/smooth.py: smoothing of a multi-phase microstructure.    *)
(*                                                                         *)
(* The spatial grid is modelled as a ring of cells 0..n-1 (one spatial     *)
(* axis with wrap-around); an encoding maps every cell to a function from  *)
(* the phases 0..P-1 to a number.  Slice values are integers; the output   *)
(* of the Gaussian filter is a rational <<numerator, denominator>>.        *)
(***************************************************************************)
EXTENDS Integers, Sequences, FiniteSets, TLC

VARIABLES
    pc,                         \* position of the running call
    caller,                     \* "lib": smooth() called directly, "main": through main()
    args,                       \* the argparse namespace handed to main()
    array,                      \* the Microstructure's encoded array
    has_phases,                 \* Microstructure.has_phases
    input,                      \* array as it was when the call started
    method, strength,           \* smooth()'s parameters
    f,                          \* smooth()'s local f
    x,                          \* the handle yielded by use_multiphase_encoding
    ms_encoded, vfs, largest_phase,
    ms_smoothed, largest_indicator_function,
    phase,                      \* the loop variable of _smooth_multiphase
    err,                        \* the exception that ended the call
    files,                      \* output files written by to_npy
    entered,                    \* the multiphase-encoding scope was entered
    assigned,                   \* number of x.assign calls of this call
    filtered                    \* phases whose slice was passed to f

vars == <<pc, caller, args, array, has_phases, input, method, strength, f, x,
          ms_encoded, vfs, largest_phase, ms_smoothed,
          largest_indicator_function, phase, err, files, entered, assigned,
          filtered>>

----------------------------------------------------------------------------
(* Bounds of the model *)

GridSize == 5
MaxPhases == 3
RawGridSize == 3
RawMaxPhases == 3
PeriodicGridSize == 8
PeriodicMaxPhases == 2

(* Program constants *)

DefaultMethod == "gaussian"
DefaultStrength == "1.0"

\* Python's None, for a name (a string), and an unbound or empty value otherwise
None == "None"
Null == <<>>
Methods == {DefaultMethod, "bogus"}
Strengths == {DefaultStrength, "2.0"}

----------------------------------------------------------------------------
(* Arrays *)

Cells(a) == DOMAIN a
NumCells(a) == Cardinality(DOMAIN a)
Phases(a) == DOMAIN a[0]
NumPhases(a) == Cardinality(DOMAIN a[0])
Slice(a, ph) == [c \in Cells(a) |-> a[c][ph]]
SetSlice(a, ph, field) == [c \in Cells(a) |-> [a[c] EXCEPT ![ph] = field[c]]]

Zeros(a) == [c \in Cells(a) |-> [ph \in Phases(a) |-> 0]]
\* mutant of Ones: np.zeros in place of np.ones
OnesAsZeros(a) == [c \in Cells(a) |-> 0]

Ones(a) == [c \in Cells(a) |-> 1]

\* one-hot encoding of a label field
Encode(labels, p) == [c \in DOMAIN labels |-> [ph \in 0..(p - 1) |-> IF labels[c] = ph THEN 1 ELSE 0]]

RECURSIVE SumField(_, _)
SumField(field, k) == IF k = 0 THEN 0 ELSE field[k - 1] + SumField(field, k - 1)

\* np.average of a slice, as the rational <<sum, number of cells>>
Average(field) == <<SumField(field, Cardinality(DOMAIN field)), Cardinality(DOMAIN field)>>

RatLess(a, b) == a[1] * b[2] < b[1] * a[2]

----------------------------------------------------------------------------
(* numpy / scipy operations used by the module *)

\* mutant of Larger: a later index that ties replaces the current best
LargerOrEqual(v, a, b) == ~RatLess(v[a], v[b])

\* v[a] is strictly larger than v[b]
Larger(v, a, b) == RatLess(v[b], v[a])

\* np.argmax: the first index attaining the maximum
RECURSIVE ArgMaxScan(_, _, _)
ArgMaxScan(v, k, best) ==
    IF k >= Cardinality(DOMAIN v) THEN best
    ELSE ArgMaxScan(v, k + 1, IF Larger(v, k, best) THEN k ELSE best)

ArgMax(v) == ArgMaxScan(v, 1, 0)

\* Gaussian weights for a strength, as integers over their sum (binomial
\* approximation of the normalised Gaussian kernel scipy builds)
Kernel(s) == IF s = DefaultStrength THEN <<1, 2, 1>> ELSE <<1, 4, 6, 4, 1>>

RECURSIVE SumSeq(_, _)
SumSeq(w, k) == IF k = 0 THEN 0 ELSE w[k] + SumSeq(w, k - 1)

\* mutant of WrapIndex: scipy's default mode='reflect'
ReflectIndex(i, n) == IF i < 0 THEN -i - 1 ELSE IF i >= n THEN 2 * n - 1 - i ELSE i

\* mode='wrap': the index of a neighbour on the periodic grid
WrapIndex(i, n) == i % n

RECURSIVE Correlate(_, _, _, _)
Correlate(field, w, c, k) ==
    IF k = 0 THEN 0
    ELSE w[k] * field[WrapIndex(c + k - 1 - ((Len(w) - 1) \div 2), Cardinality(DOMAIN field))]
         + Correlate(field, w, c, k - 1)

\* scipy.ndimage.gaussian_filter(field, s, mode='wrap'): a field of rationals
gaussian_filter(field, s) ==
    LET w == Kernel(s)
        den == SumSeq(w, Len(w))
    IN  [c \in DOMAIN field |-> <<Correlate(field, w, c, Len(w)), den>>]

\* mutant of np_round: ties rounded up
np_round_half_up(q) ==
    LET lo == q[1] \div q[2]
        rem == q[1] % q[2]
    IN  IF 2 * rem < q[2] THEN lo ELSE lo + 1

\* np.round of a rational with positive denominator: nearest integer, ties to even
np_round(q) ==
    LET lo == q[1] \div q[2]
        rem == q[1] % q[2]
    IN  IF 2 * rem < q[2] THEN lo
        ELSE IF 2 * rem > q[2] THEN lo + 1
        ELSE IF lo % 2 = 0 THEN lo ELSE lo + 1

gaussian_smoothing(field, s) ==
    LET blurred == gaussian_filter(field, s)
    IN  [c \in DOMAIN field |-> np_round(blurred[c])]

\* the function object smooth() binds to f
Apply(fn, field, s) == IF fn = "gaussian_smoothing" THEN gaussian_smoothing(field, s) ELSE field

----------------------------------------------------------------------------
(* _smooth_multiphase, statement by statement *)

VolumeFractions(enc) == [ph \in Phases(enc) |-> Average(Slice(enc, ph))]

\* mutant of Subtract: += in place of -=
SubtractAsAdd(acc, field) == [c \in DOMAIN acc |-> acc[c] + field[c]]

Subtract(acc, field) == [c \in DOMAIN acc |-> acc[c] - field[c]]

\* x.numpy()[0] and ms_smoothed.reshape(x.numpy().shape): the handle holds the
\* encoding under a leading batch axis
Numpy0(h) == h[1]
Reshape(a) == <<a>>

\* lines 43-49
SmStart ==
    /\ pc = "sm_start"
    /\ ms_encoded' = Numpy0(x)
    /\ vfs' = VolumeFractions(Numpy0(x))
    /\ largest_phase' = ArgMax(VolumeFractions(Numpy0(x)))
    /\ ms_smoothed' = Zeros(Numpy0(x))
    /\ largest_indicator_function' = Ones(array)
    /\ phase' = 0
    /\ pc' = "sm_loop"
    /\ UNCHANGED <<caller, args, array, has_phases, input, method, strength, f, x,
                   err, files, entered, assigned, filtered>>

\* mutant of SmLoop: the dominant phase is not skipped
SmLoopNoSkip ==
    /\ pc = "sm_loop"
    /\ phase < NumPhases(ms_encoded)
    /\ LET out == Apply(f, Slice(ms_encoded, phase), strength)
       IN  /\ ms_smoothed' = SetSlice(ms_smoothed, phase, out)
           /\ largest_indicator_function' = Subtract(largest_indicator_function, out)
           /\ filtered' = filtered \cup {phase}
    /\ phase' = phase + 1
    /\ UNCHANGED <<pc, caller, args, array, has_phases, input, method, strength, f, x,
                   ms_encoded, vfs, largest_phase, err, files, entered, assigned>>

\* lines 50-54: one iteration of the loop over the phases
SmLoop ==
    /\ pc = "sm_loop"
    /\ phase < NumPhases(ms_encoded)
    /\ IF phase = largest_phase
       THEN UNCHANGED <<ms_smoothed, largest_indicator_function, filtered>>
       ELSE LET out == Apply(f, Slice(ms_encoded, phase), strength)
            IN  /\ ms_smoothed' = SetSlice(ms_smoothed, phase, out)
                /\ largest_indicator_function' = Subtract(largest_indicator_function, out)
                /\ filtered' = filtered \cup {phase}
    /\ phase' = phase + 1
    /\ UNCHANGED <<pc, caller, args, array, has_phases, input, method, strength, f, x,
                   ms_encoded, vfs, largest_phase, err, files, entered, assigned>>

\* lines 55-56: the dominant slice, then x.assign
SmFinish ==
    /\ pc = "sm_loop"
    /\ phase >= NumPhases(ms_encoded)
    /\ ms_smoothed' = SetSlice(ms_smoothed, largest_phase, largest_indicator_function)
    /\ x' = Reshape(SetSlice(ms_smoothed, largest_phase, largest_indicator_function))
    /\ assigned' = assigned + 1
    /\ pc' = "smooth_exit"
    /\ UNCHANGED <<caller, args, array, has_phases, input, method, strength, f,
                   ms_encoded, vfs, largest_phase, largest_indicator_function,
                   phase, err, files, entered, filtered>>

----------------------------------------------------------------------------
(* smooth *)

\* Microstructure.use_multiphase_encoding: the handle yielded on entry, and the
\* array the Microstructure holds once the scope is left
UseMultiphaseEncoding(a) == <<a>>
CommitEncoding(h) == h[1]

locals == <<f, x, ms_encoded, vfs, largest_phase, ms_smoothed,
            largest_indicator_function, phase>>

Raise(e) ==
    /\ err' = e
    /\ pc' = "failed"

\* a direct call smooth(microstructure, method, strength)
CallSmooth ==
    /\ pc = "idle"
    /\ \E m \in Methods, s \in Strengths :
          /\ method' = m
          /\ strength' = s
    /\ caller' = "lib"
    /\ pc' = "smooth_assert"
    /\ UNCHANGED <<args, array, has_phases, input, err, files, entered, assigned,
                   filtered, locals>>

\* mutant of SmoothAssert: the assertion is not evaluated
SmoothAssertStripped ==
    /\ pc = "smooth_assert"
    /\ pc' = "smooth_dispatch"
    /\ UNCHANGED <<caller, args, array, has_phases, input, method, strength, err,
                   files, entered, assigned, filtered, locals>>

\* line 33
SmoothAssert ==
    /\ pc = "smooth_assert"
    /\ IF has_phases
       THEN /\ pc' = "smooth_dispatch"
            /\ err' = err
       ELSE Raise(<<"AssertionError">>)
    /\ UNCHANGED <<caller, args, array, has_phases, input, method, strength, files,
                   entered, assigned, filtered, locals>>

\* mutant of SmoothDispatch: an unknown method falls back to the gaussian filter
SmoothDispatchFallback ==
    /\ pc = "smooth_dispatch"
    /\ f' = "gaussian_smoothing"
    /\ pc' = "smooth_enter"
    /\ UNCHANGED <<caller, args, array, has_phases, input, method, strength, x,
                   ms_encoded, vfs, largest_phase, ms_smoothed,
                   largest_indicator_function, phase, err, files, entered, assigned,
                   filtered>>

\* lines 34-37
SmoothDispatch ==
    /\ pc = "smooth_dispatch"
    /\ IF method = "gaussian"
       THEN /\ f' = "gaussian_smoothing"
            /\ pc' = "smooth_enter"
            /\ err' = err
       ELSE /\ Raise(<<"NotImplementedError", method>>)
            /\ f' = f
    /\ UNCHANGED <<caller, args, array, has_phases, input, method, strength, x,
                   ms_encoded, vfs, largest_phase, ms_smoothed,
                   largest_indicator_function, phase, files, entered, assigned,
                   filtered>>

\* line 38: with microstructure.use_multiphase_encoding() as x
EnterScope ==
    /\ pc = "smooth_enter"
    /\ x' = UseMultiphaseEncoding(array)
    /\ entered' = TRUE
    /\ pc' = "sm_start"
    /\ UNCHANGED <<caller, args, array, has_phases, input, method, strength, f,
                   ms_encoded, vfs, largest_phase, ms_smoothed,
                   largest_indicator_function, phase, err, files, assigned, filtered>>

\* line 39, leaving the with block: the handle's content is the Microstructure's
ExitScope ==
    /\ pc = "smooth_exit"
    /\ array' = CommitEncoding(x)
    /\ pc' = "smooth_return"
    /\ UNCHANGED <<caller, args, has_phases, input, method, strength, err, files,
                   entered, assigned, filtered, locals>>

\* line 40
SmoothReturn ==
    /\ pc = "smooth_return"
    /\ pc' = IF caller = "main" THEN "main_write" ELSE "done"
    /\ UNCHANGED <<caller, args, array, has_phases, input, method, strength, err,
                   files, entered, assigned, filtered, locals>>

----------------------------------------------------------------------------
(* main *)

Filenames == {<<"ms", ".npy">>, <<"ms", ".txt">>}
Infos == {None, "v2"}

ArgSpace ==
    [exists : BOOLEAN, microstructure_filename : Filenames, method : Methods,
     strength : Strengths, info : Infos]

\* lines 74-81: the parsed command line is handed to main
MainStart ==
    /\ pc = "idle"
    /\ args' \in ArgSpace
    /\ caller' = "main"
    /\ pc' = "main_isfile"
    /\ UNCHANGED <<array, has_phases, input, method, strength, err, files, entered,
                   assigned, filtered, locals>>

\* lines 61-62
MainIsFile ==
    /\ pc = "main_isfile"
    /\ IF args.exists
       THEN /\ pc' = "main_endswith"
            /\ err' = err
       ELSE Raise(<<"ValueError", "does not exist">>)
    /\ UNCHANGED <<caller, args, array, has_phases, input, method, strength, files,
                   entered, assigned, filtered, locals>>

\* lines 63-64
MainEndswith ==
    /\ pc = "main_endswith"
    /\ IF args.microstructure_filename[2] = ".npy"
       THEN /\ pc' = "main_load"
            /\ err' = err
       ELSE Raise(<<"ValueError", "should be a .npy-file">>)
    /\ UNCHANGED <<caller, args, array, has_phases, input, method, strength, files,
                   entered, assigned, filtered, locals>>

\* Microstructure.from_npy yields the Microstructure or fails
FromNpyLoads == BOOLEAN

\* Microstructure.to_npy writes the array to the named file
NpyFile(name, a) == [name |-> name, content |-> a]

\* line 66
FromNpy ==
    /\ pc = "main_load"
    /\ \E loaded \in FromNpyLoads :
          IF loaded
          THEN /\ pc' = "main_smooth"
               /\ err' = err
          ELSE Raise(<<"LoadError">>)
    /\ UNCHANGED <<caller, args, array, has_phases, input, method, strength, files,
                   entered, assigned, filtered, locals>>

\* lines 70-71
OutputFilename(a) ==
    <<a.microstructure_filename[1], IF a.info = None THEN "" ELSE "_" \o a.info,
      "_smoothed.npy">>

\* mutant of MainSmooth: the options are passed on to smooth
MainSmoothWithOptions ==
    /\ pc = "main_smooth"
    /\ method' = args.method
    /\ strength' = args.strength
    /\ pc' = "smooth_assert"
    /\ UNCHANGED <<caller, args, array, has_phases, input, err, files, entered,
                   assigned, filtered, locals>>

\* mutant of MainSmooth: the output file is written before smoothing
MainSmoothAfterWrite ==
    /\ pc = "main_smooth"
    /\ files' = files \cup {NpyFile(OutputFilename(args), array)}
    /\ method' = DefaultMethod
    /\ strength' = DefaultStrength
    /\ pc' = "smooth_assert"
    /\ UNCHANGED <<caller, args, array, has_phases, input, err, entered,
                   assigned, filtered, locals>>

\* line 68: smooth(ms), with the defaults of line 32
MainSmooth ==
    /\ pc = "main_smooth"
    /\ method' = DefaultMethod
    /\ strength' = DefaultStrength
    /\ pc' = "smooth_assert"
    /\ UNCHANGED <<caller, args, array, has_phases, input, err, files, entered,
                   assigned, filtered, locals>>

\* line 72
ToNpy ==
    /\ pc = "main_write"
    /\ files' = files \cup {NpyFile(OutputFilename(args), array)}
    /\ pc' = "done"
    /\ UNCHANGED <<caller, args, array, has_phases, input, method, strength, err,
                   entered, assigned, filtered, locals>>

----------------------------------------------------------------------------
(* The program *)

\* the one-hot encodings of the label fields on n cells with at most maxp phases
Inputs(n, maxp) ==
    UNION {{Encode(labels, p) : labels \in [0..(n - 1) -> 0..(p - 1)]} : p \in 1..maxp}

Start(a) ==
    /\ pc = "idle"
    /\ caller = None
    /\ args = Null
    /\ array = a
    /\ input = a
    /\ method = None
    /\ strength = None
    /\ f = None
    /\ x = Null
    /\ ms_encoded = Null
    /\ vfs = Null
    /\ largest_phase = -1
    /\ ms_smoothed = Null
    /\ largest_indicator_function = Null
    /\ phase = -1
    /\ err = Null
    /\ files = {}
    /\ entered = FALSE
    /\ assigned = 0
    /\ filtered = {}

Init ==
    /\ has_phases \in BOOLEAN
    /\ \E a \in Inputs(GridSize, MaxPhases) : Start(a)

\* the call has ended; the same Microstructure is used for the next one
Reset ==
    /\ pc \in {"done", "failed"}
    /\ pc' = "idle"
    /\ caller' = None
    /\ args' = Null
    /\ input' = array
    /\ method' = None
    /\ strength' = None
    /\ f' = None
    /\ x' = Null
    /\ ms_encoded' = Null
    /\ vfs' = Null
    /\ largest_phase' = -1
    /\ ms_smoothed' = Null
    /\ largest_indicator_function' = Null
    /\ phase' = -1
    /\ err' = Null
    /\ files' = {}
    /\ entered' = FALSE
    /\ assigned' = 0
    /\ filtered' = {}
    /\ UNCHANGED <<array, has_phases>>

Smooth ==
    \/ SmoothAssert
    \/ SmoothDispatch
    \/ EnterScope
    \/ SmStart
    \/ SmLoop
    \/ SmFinish
    \/ ExitScope
    \/ SmoothReturn

Main ==
    \/ MainStart
    \/ MainIsFile
    \/ MainEndswith
    \/ FromNpy
    \/ MainSmooth
    \/ ToNpy

Next == CallSmooth \/ Smooth \/ Main \/ Reset

Spec == Init /\ [][Next]_vars

InitPeriodic ==
    /\ has_phases = TRUE
    /\ \E a \in Inputs(PeriodicGridSize, PeriodicMaxPhases) : Start(a)

NextPeriodic == CallSmooth \/ Smooth \/ Reset

SpecPeriodic == InitPeriodic /\ [][NextPeriodic]_vars

\* every 0/1-valued array, one-hot or not, on n cells with at most maxp phases
RawInputs(n, maxp) ==
    UNION {[0..(n - 1) -> [0..(p - 1) -> {0, 1}]] : p \in 1..maxp}

InitRaw ==
    /\ has_phases = TRUE
    /\ \E a \in RawInputs(RawGridSize, RawMaxPhases) : Start(a)

NextOnce == CallSmooth \/ Smooth

SpecRaw == InitRaw /\ [][NextOnce]_vars

----------------------------------------------------------------------------
(* Definitions used to state the properties *)

RECURSIVE SumRow(_, _, _)
\* the sum of row[0..k-1] without row[skip]
SumRow(row, k, skip) ==
    IF k = 0 THEN 0
    ELSE (IF k - 1 = skip THEN 0 ELSE row[k - 1]) + SumRow(row, k - 1, skip)

PhaseSum(row) == SumRow(row, Cardinality(DOMAIN row), -1)

IsOneHot(a) ==
    \A c \in Cells(a) :
        /\ \A ph \in Phases(a) : a[c][ph] \in {0, 1}
        /\ Cardinality({ph \in Phases(a) : a[c][ph] = 1}) = 1

IsUniform(a) ==
    \E ph \in Phases(a) : \A c \in Cells(a) : \A q \in Phases(a) :
        a[c][q] = IF q = ph THEN 1 ELSE 0

Shift(a, k) == [c \in Cells(a) |-> a[(c + k) % NumCells(a)]]

CellTotal(a, ph) == SumField(Slice(a, ph), NumCells(a))

\* the phase of largest volume fraction, the smallest index among several
Dominant(a) ==
    CHOOSE ph \in Phases(a) :
        /\ \A q \in Phases(a) : CellTotal(a, q) <= CellTotal(a, ph)
        /\ \A q \in Phases(a) : q < ph => CellTotal(a, q) < CellTotal(a, ph)

\* the reference result: the other phases filtered, the given phase the complement
Reference(a, lp, s) ==
    LET sm == [q \in Phases(a) |-> gaussian_smoothing(Slice(a, q), s)]
    IN  [c \in Cells(a) |->
            LET row == [q \in Phases(a) |-> sm[q][c]]
            IN  [q \in Phases(a) |->
                    IF q = lp THEN 1 - SumRow(row, NumPhases(a), lp) ELSE row[q]]]

Committed == pc \in {"smooth_return", "main_write", "done"}

----------------------------------------------------------------------------
(* Properties *)

\* C1 (conservation): whatever the input encoding and the strength, the array
\* handed to x.assign, and the array the Microstructure holds afterwards, sum
\* to 1 over the phase axis at every cell.
C1_Conservation ==
    /\ assigned > 0 =>
          \A c \in Cells(x[1]) : PhaseSum(x[1][c]) = 1
    /\ Committed =>
          \A c \in Cells(array) : PhaseSum(array[c]) = 1

\* an input that is not one-hot (a cell that sums to 3) has been smoothed
C1_Witness ==
    /\ pc = "done"
    /\ assigned = 1
    /\ NumPhases(input) = 3
    /\ \E c \in Cells(input) : PhaseSum(input[c]) = 3
    /\ \E c \in Cells(input) : PhaseSum(input[c]) = 0
    /\ array # input

\* C2 (unready input): without has_phases the call fails on the assertion
\* whatever the method, the encoding scope is never entered, x.assign is never
\* called and the array stays as it was.
C2_NoPhasesRejected ==
    ~has_phases =>
        /\ pc \notin {"smooth_dispatch", "smooth_enter", "sm_start", "sm_loop",
                      "smooth_exit", "smooth_return", "main_write", "done"}
        /\ (pc = "failed" /\ method # None) => err = <<"AssertionError">>
        /\ ~entered
        /\ assigned = 0
        /\ x = Null
        /\ array = input

\* smooth was called with an unsupported method on a Microstructure without phases
C2_Witness ==
    /\ ~has_phases
    /\ pc = "failed"
    /\ caller = "lib"
    /\ method = "bogus"
    /\ err = <<"AssertionError">>

\* C3 (unknown method): with has_phases, a method other than 'gaussian' fails
\* with the error naming it before the encoding scope is entered, the array
\* unmutated.
C3_UnknownMethodRejected ==
    (has_phases /\ method # None /\ method # "gaussian") =>
        /\ pc \in {"smooth_assert", "smooth_dispatch", "failed"}
        /\ pc = "failed" => err = <<"NotImplementedError", method>>
        /\ f = None
        /\ ~entered
        /\ assigned = 0
        /\ x = Null
        /\ array = input

C3_Witness ==
    /\ has_phases
    /\ pc = "failed"
    /\ method = "bogus"
    /\ err = <<"NotImplementedError", "bogus">>
    /\ array = input

\* C4 (one-hot output): a one-hot input smoothed with the gaussian method gives
\* a one-hot array, the reconstructed dominant slice included.
C4_OneHotPreserved ==
    IsOneHot(input) =>
        /\ assigned > 0 => IsOneHot(x[1])
        /\ IsOneHot(array)

\* two phases other than the dominant one are both filtered to exactly one
\* half at the same cell, and the call has returned
C4_Witness ==
    /\ pc = "done"
    /\ IsOneHot(input)
    /\ assigned = 1
    /\ \E c \in Cells(input) : \E p1, p2 \in Phases(input) \ {largest_phase} :
          /\ p1 # p2
          /\ 2 * gaussian_filter(Slice(input, p1), strength)[c][1]
                = gaussian_filter(Slice(input, p1), strength)[c][2]
          /\ 2 * gaussian_filter(Slice(input, p2), strength)[c][1]
                = gaussian_filter(Slice(input, p2), strength)[c][2]

\* C5 (dominant phase): the phase chosen has the largest volume fraction of
\* the input, and is the smallest index among the phases that attain it.
C5_DominantIsFirstArgmax ==
    largest_phase # -1 =>
        /\ largest_phase \in Phases(input)
        /\ \A q \in Phases(input) :
              /\ CellTotal(input, q) <= CellTotal(input, largest_phase)
              /\ q < largest_phase =>
                    CellTotal(input, q) < CellTotal(input, largest_phase)

\* two phases tie for the largest volume fraction, neither is phase 0
C5_Witness ==
    /\ pc = "sm_loop"
    /\ NumPhases(input) = 3
    /\ largest_phase = 1
    /\ CellTotal(input, 2) = CellTotal(input, 1)
    /\ CellTotal(input, 0) < CellTotal(input, 1)

\* C6 (uniform field): a Microstructure whose array is a uniform single-phase
\* field keeps that array in every step, so smoothing it, once or repeatedly,
\* leaves it unchanged.
C6_UniformUnchanged == [][IsUniform(array) => array' = array]_vars

\* a uniform field of the last of three phases was smoothed by a call that returned
C6_Witness ==
    /\ pc = "done"
    /\ assigned = 1
    /\ NumPhases(input) = 3
    /\ \A c \in Cells(input) : input[c][2] = 1
    /\ IsUniform(input)
    /\ strength = "2.0"
    /\ array = input

\* C7 (periodicity): an input invariant under a cyclic shift is smoothed to an
\* output invariant under the same shift.
C7_ShiftInvariance ==
    \A k \in 1..(NumCells(input) - 1) :
        Shift(input, k) = input =>
            /\ assigned > 0 => Shift(x[1], k) = x[1]
            /\ Shift(array, k) = array

\* a field of period 4 that is not uniform was smoothed to a field that is not
\* uniform either
C7_Witness ==
    /\ pc = "done"
    /\ assigned = 1
    /\ Shift(input, 4) = input
    /\ Shift(input, 1) # input
    /\ Shift(array, 1) # array

\* C8 (no output on failure): a file is written only by main, after smooth has
\* returned without an error, and holds the smoothed array; a failed call has
\* written nothing.
C8_NoWriteOnFailure ==
    /\ pc = "failed" => files = {}
    /\ err # Null => files = {}
    /\ files # {} =>
          /\ pc = "done"
          /\ caller = "main"
          /\ entered
          /\ assigned = 1
          /\ files = {[name |-> OutputFilename(args), content |-> array]}

\* main failed inside smooth
C8_Witness ==
    /\ pc = "failed"
    /\ caller = "main"
    /\ err = <<"AssertionError">>
    /\ args.exists
    /\ files = {}

\* C9 (reference result): during the loop the slices processed so far hold the
\* filtered input slices, the others are zero, largest_indicator_function is 1
\* minus the slices processed so far and nothing was assigned; the one
\* assignment, after the last phase, is the reference result, and the dominant
\* slice was never filtered.
C9_MatchesReference ==
    /\ pc = "sm_loop" =>
          /\ assigned = 0
          /\ x = <<input>>
          /\ filtered = {q \in Phases(input) : q < phase /\ q # largest_phase}
          /\ \A q \in Phases(input) :
                Slice(ms_smoothed, q) =
                    IF q \in filtered
                    THEN gaussian_smoothing(Slice(input, q), strength)
                    ELSE [c \in Cells(input) |-> 0]
          /\ \A c \in Cells(input) :
                largest_indicator_function[c] = 1 - SumRow(ms_smoothed[c], phase, largest_phase)
    /\ assigned > 0 =>
          /\ assigned = 1
          /\ phase = NumPhases(input)
          /\ filtered = Phases(input) \ {largest_phase}
          /\ x = <<Reference(input, largest_phase, strength)>>
          /\ Committed => array = Reference(input, largest_phase, strength)

\* three phases, the two other than the dominant one filtered, one of them to
\* a slice that is not zero, and the result differs from the input
C9_Witness ==
    /\ pc = "smooth_exit"
    /\ NumPhases(input) = 3
    /\ Cardinality(filtered) = 2
    /\ \E q \in filtered : \E c \in Cells(input) : x[1][c][q] = 1
    /\ x[1] # input

\* C10 (main ignores --method and --strength): under main, smooth runs with
\* method 'gaussian' and strength 1.0 whatever the options say, never fails on
\* the method, and the file written holds the default smoothing of the input.
C10_MainUsesDefaults ==
    caller = "main" =>
        /\ method \in {None, "gaussian"}
        /\ strength \in {None, "1.0"}
        /\ err = Null \/ err[1] # "NotImplementedError"
        /\ pc = "done" =>
              files = {[name |-> OutputFilename(args),
                        content |-> Reference(input, Dominant(input), "1.0")]}

\* main ran to the end with --method bogus --strength 2.0 and changed the array
C10_Witness ==
    /\ caller = "main"
    /\ pc = "done"
    /\ args.method = "bogus"
    /\ args.strength = "2.0"
    /\ array # input

====
